---- MODULE Spec2Model ----
(***************************************************************************)
(* EduAgent: the explanation resolver (generateMockResponse of the Home    *)
(* page and of the EduAgentClient web client, and the POST /api/ask route  *)
(* handler) and the question history kept by both front ends in memory and *)
(* in localStorage under the key "eduagent_history".                       *)
(*                                                                         *)
(* Text is modelled in two ways.  A question is a sequence of characters,  *)
(* because addToHistory cuts it at a character position.  An explanation   *)
(* is a sequence of string segments whose concatenation is the text: a     *)
(* stored explanation is one segment, a template literal is the sequence   *)
(* of its literal parts and substituted values.  Characters outside ASCII  *)
(* in the catalog are written with ASCII stand-ins.                        *)
(***************************************************************************)
EXTENDS Integers, Sequences, FiniteSets, TLC

(***************************************************************************)
(* The arguments the functions are applied to in SpecFn.                   *)
(***************************************************************************)
\* The concept strings drawn as arguments: the catalog's keys, concepts the
\* selector offers that the catalog lacks, an unknown one, and strings that
\* name properties every JavaScript object inherits.
ConceptInputs ==
    {"algebra", "python", "data-structures", "calculus", "quantum-foo",
     "mathematics", "constructor", "__proto__", "toString"}

\* The difficulty strings drawn as arguments.
DifficultyInputs ==
    {"expert", "beginner", "intermediate", "advanced", "",
     "constructor", "__proto__", "name", "length"}

(***************************************************************************)
(* JavaScript values.  Every value is a record with a kind, so that values *)
(* of different types can be compared.                                     *)
(***************************************************************************)
Undefined == [kind |-> "undefined"]

Null == [kind |-> "null"]

Str(s) == [kind |-> "string", value |-> s]

Num(n) == [kind |-> "number", value |-> n]

\* A built-in function object, such as Object or Object.prototype.toString.
Fn(name, arity) == [kind |-> "function", name |-> name, length |-> arity]

ObjectFn == Fn("Object", 1)

FunctionFn == Fn("Function", 1)

\* Object.prototype, the prototype of every object literal.
ObjectPrototype == [kind |-> "object", name |-> "Object.prototype"]

\* Function.prototype, the prototype of every function.
FunctionPrototype == [kind |-> "object", name |-> "Function.prototype"]

\* ToBoolean: what `||` and `?.` test.
Truthy(v) ==
    CASE v.kind = "undefined" -> FALSE
      [] v.kind = "null" -> FALSE
      [] v.kind = "string" -> v.value # ""
      [] v.kind = "number" -> v.value # 0
      [] OTHER -> TRUE

Nullish(v) == v.kind \in {"undefined", "null"}

\* The methods every object inherits from Object.prototype.
ObjectPrototypeMethods ==
    {"toString", "valueOf", "hasOwnProperty", "isPrototypeOf",
     "propertyIsEnumerable", "toLocaleString"}

\* obj[key] where the lookup has reached Object.prototype.
ObjectPrototypeGet(key) ==
    CASE key = "constructor" -> ObjectFn
      [] key \in ObjectPrototypeMethods ->
            Fn(key, IF key \in {"hasOwnProperty", "isPrototypeOf", "propertyIsEnumerable"} THEN 1 ELSE 0)
      [] OTHER -> Undefined

\* fn[key] for a built-in function: its own name, length and prototype, then
\* Function.prototype, then Object.prototype.
FunctionGet(fn, key) ==
    CASE key = "name" -> Str(fn.name)
      [] key = "length" -> Num(fn.length)
      [] key = "prototype" /\ fn = ObjectFn -> ObjectPrototype
      [] key = "prototype" /\ fn = FunctionFn -> FunctionPrototype
      [] key = "constructor" -> FunctionFn
      [] key \in {"call", "apply", "bind"} -> Fn(key, IF key = "call" THEN 1 ELSE IF key = "apply" THEN 2 ELSE 1)
      [] key = "__proto__" -> FunctionPrototype
      [] OTHER -> ObjectPrototypeGet(key)

(***************************************************************************)
(* The knowledge catalog of Home.generateMockResponse: concept ->          *)
(* difficulty -> record.  A text is the sequence of its parts; where a     *)
(* stored explanation holds a concept key of the catalog as written        *)
(* ("algebra"), the key is a part of its own.                              *)
(***************************************************************************)
Rec_algebra_beginner ==
    [kind |-> "record",
     explanation |-> <<"Algebra is the branch of mathematics that uses letters (variables) to represent unknown numbers. It helps us solve problems by creating equations.">>,
     keyPoints |-> <<"Variables represent unknown values", "Equations show relationships between numbers", "We solve by isolating the variable", "Balance both sides of the equation">>,
     examples |-> <<"x + 5 = 12 -> x = 7", "2x = 10 -> x = 5", "x - 3 = 7 -> x = 10">>,
     practiceProblems |-> <<"Solve: x + 8 = 15", "Solve: 3x = 21", "Solve: x - 4 = 6">>]

Rec_algebra_intermediate ==
    [kind |-> "record",
     explanation |-> <<"Intermediate ", "algebra", " involves working with polynomials, factoring, and quadratic equations. These concepts build on basic ", "algebra", "ic principles.">>,
     keyPoints |-> <<"Polynomials have multiple terms with variables", "Factoring breaks expressions into simpler parts", "Quadratic equations have x^2 terms", "Use the quadratic formula or factoring to solve">>,
     examples |-> <<"x^2 + 5x + 6 = (x + 2)(x + 3)", "x^2 - 4 = (x - 2)(x + 2)", "Using quadratic formula: x = (-b +/- sqrt(b^2 - 4ac)) / 2a">>,
     practiceProblems |-> <<"Factor: x^2 + 7x + 12", "Solve: x^2 - 9 = 0", "Factor: 2x^2 + 8x + 6">>]

Rec_algebra_advanced ==
    [kind |-> "record",
     explanation |-> <<"Advanced ", "algebra", " covers complex polynomials, systems of equations, matrices, and abstract ", "algebra", "ic structures.">>,
     keyPoints |-> <<"Systems of equations can be solved using matrices", "Eigenvalues and eigenvectors are important in linear algebra", "Abstract algebra studies algebraic structures", "Group theory and ring theory are key concepts">>,
     examples |-> <<"Matrix multiplication: [a b] x [e f] = [ae+bg af+bh]", "Determinant calculation for 2x2 matrix", "Solving systems using Gaussian elimination">>,
     practiceProblems |-> <<"Find the determinant of a 3x3 matrix", "Solve a system of 3 equations with 3 unknowns", "Find eigenvalues of a given matrix">>]

Rec_python_beginner ==
    [kind |-> "record",
     explanation |-> <<"Python is a beginner-friendly programming language. It uses simple syntax and is great for learning programming concepts.">>,
     keyPoints |-> <<"Python uses indentation for code blocks", "Variables store data without declaring types", "Print function displays output", "Comments start with #">>,
     examples |-> <<"print('Hello, World!')", "x = 10; y = 20; print(x + y)", "name = 'Alice'; print(f'Hello, {name}')">>,
     practiceProblems |-> <<"Write a program that prints your name", "Create variables and print their sum", "Use a loop to print numbers 1 to 10">>]

Rec_python_intermediate ==
    [kind |-> "record",
     explanation |-> <<"Intermediate Python covers functions, lists, dictionaries, and file handling. These are essential for building real applications.">>,
     keyPoints |-> <<"Functions organize code into reusable blocks", "Lists store multiple values", "Dictionaries use key-value pairs", "File I/O allows reading and writing data">>,
     examples |-> <<"def greet(name): return f'Hello, {name}'", "my_list = [1, 2, 3]; my_list.append(4)", "my_dict = {'name': 'Alice', 'age': 25}">>,
     practiceProblems |-> <<"Write a function that calculates factorial", "Create a list and filter even numbers", "Read from a file and count lines">>]

Rec_python_advanced ==
    [kind |-> "record",
     explanation |-> <<"Advanced Python includes decorators, generators, async programming, and metaprogramming for building complex applications.">>,
     keyPoints |-> <<"Decorators modify function behavior", "Generators use yield for memory efficiency", "Async/await enables concurrent programming", "Metaclasses control class creation">>,
     examples |-> <<"@decorator def func(): pass", "def gen(): yield 1; yield 2", "async def fetch(): await asyncio.sleep(1)">>,
     practiceProblems |-> <<"Create a decorator that logs function calls", "Write a generator for Fibonacci sequence", "Build an async web scraper">>]

Rec_data_structures_beginner ==
    [kind |-> "record",
     explanation |-> <<"Data structures are ways to organize and store data. Arrays and lists are the simplest data structures.">>,
     keyPoints |-> <<"Arrays store elements in contiguous memory", "Lists are dynamic arrays that can grow", "Access elements by index (0-based)", "Common operations: insert, delete, search">>,
     examples |-> <<"Array: [1, 2, 3, 4, 5]", "List in Python: my_list = [10, 20, 30]", "Access: my_list[0] returns 10">>,
     practiceProblems |-> <<"Create a list and access the third element", "Add and remove elements from a list", "Find the maximum value in a list">>]

Rec_data_structures_intermediate ==
    [kind |-> "record",
     explanation |-> <<"Intermediate data structures include stacks, queues, linked lists, and trees. These are crucial for algorithm design.">>,
     keyPoints |-> <<"Stacks follow LIFO (Last In First Out)", "Queues follow FIFO (First In First Out)", "Linked lists use pointers to connect nodes", "Trees have hierarchical structure">>,
     examples |-> <<"Stack: push(5), push(10), pop() returns 10", "Queue: enqueue(1), enqueue(2), dequeue() returns 1", "Binary Tree: root with left and right children">>,
     practiceProblems |-> <<"Implement a stack using a list", "Implement a queue using a list", "Create a simple binary tree">>]

Rec_data_structures_advanced ==
    [kind |-> "record",
     explanation |-> <<"Advanced data structures include hash tables, graphs, heaps, and tries. These optimize specific operations.">>,
     keyPoints |-> <<"Hash tables provide O(1) average lookup", "Graphs represent networks and relationships", "Heaps maintain partial ordering", "Tries efficiently store strings">>,
     examples |-> <<"Hash table: {'key': 'value'}", "Graph: nodes connected by edges", "Min-heap: parent <= children", "Trie: tree of characters for prefix search">>,
     practiceProblems |-> <<"Implement a hash table with collision handling", "Build a graph and perform DFS/BFS", "Implement a min-heap", "Build a trie for autocomplete">>]

\* An object literal: its own properties, inherited ones from Object.prototype.
Literal(props) == [kind |-> "literal", props |-> props]

\* The `responses` object literal of Home.generateMockResponse.
responses ==
    Literal(
        "algebra" :> Literal("beginner" :> Rec_algebra_beginner
                             @@ "intermediate" :> Rec_algebra_intermediate
                             @@ "advanced" :> Rec_algebra_advanced)
        @@ "python" :> Literal("beginner" :> Rec_python_beginner
                               @@ "intermediate" :> Rec_python_intermediate
                               @@ "advanced" :> Rec_python_advanced)
        @@ "data-structures" :> Literal("beginner" :> Rec_data_structures_beginner
                                        @@ "intermediate" :> Rec_data_structures_intermediate
                                        @@ "advanced" :> Rec_data_structures_advanced))

\* v[key]: an own property first, then the prototype chain.
PropertyGet(v, key) ==
    CASE v.kind = "literal" ->
            IF key \in DOMAIN v.props THEN v.props[key]
            ELSE IF key = "__proto__" THEN ObjectPrototype
            ELSE ObjectPrototypeGet(key)
      [] v.kind = "function" -> FunctionGet(v, key)
      [] v = ObjectPrototype ->
            IF key = "__proto__" THEN Null ELSE ObjectPrototypeGet(key)
      [] v = FunctionPrototype ->
            IF key = "__proto__" THEN ObjectPrototype
            ELSE FunctionGet(Fn("", 0), key)
      [] OTHER -> Undefined

\* v?.[key]
OptionalGet(v, key) == IF Nullish(v) THEN Undefined ELSE PropertyGet(v, key)

\* The object literal after `||` in generateMockResponse: the generic
\* template, with the difficulty and the concept substituted into its text.
GenericResponse(conceptType, difficulty) ==
    [kind |-> "record",
     explanation |-> <<"This is a ", difficulty, " level explanation for ", conceptType, ".">>,
     keyPoints |-> <<"Key point 1", "Key point 2", "Key point 3">>,
     examples |-> <<"Example 1", "Example 2">>,
     practiceProblems |-> <<"Problem 1", "Problem 2">>]

\* The catalog's difficulty levels, in their order.
Levels == {"beginner", "intermediate", "advanced"}

\* generateMockResponse had it looked the difficulty up alone, whatever the
\* concept's entry (here: always the algebra entry).
generateMockResponse_IgnoresConcept(question, conceptType, difficulty) ==
    LET found == OptionalGet(PropertyGet(responses, "algebra"), difficulty)
    IN  IF Truthy(found) THEN found ELSE GenericResponse(conceptType, difficulty)

\* generateMockResponse had it fallen back, for a catalog concept, to that
\* concept's intermediate record, and treated an unknown difficulty as
\* intermediate.
generateMockResponse_Normalizing(question, conceptType, difficulty) ==
    LET level == IF difficulty \in Levels THEN difficulty ELSE "intermediate"
        found == OptionalGet(PropertyGet(responses, conceptType), level)
    IN  IF Truthy(found) THEN found ELSE GenericResponse(conceptType, level)

\* generateMockResponse had it answered a question left empty with the
\* generic template.
generateMockResponse_ReadsQuestion(question, conceptType, difficulty) ==
    LET found == OptionalGet(PropertyGet(responses, conceptType), difficulty)
    IN  IF Truthy(found) /\ question # <<>> THEN found
        ELSE GenericResponse(conceptType, difficulty)

\* Home.generateMockResponse: responses[conceptType]?.[difficulty] || {...}
generateMockResponse(question, conceptType, difficulty) ==
    LET found == OptionalGet(PropertyGet(responses, conceptType), difficulty)
    IN  IF Truthy(found) THEN found ELSE GenericResponse(conceptType, difficulty)


\* v.name as a caller reads it from the value generateMockResponse returned:
\* present when the value is a record, otherwise whatever the lookup gives.
HasField(v, name) ==
    IF v.kind = "record" THEN name \in DOMAIN v
    ELSE ~Nullish(PropertyGet(v, name))

\* A text and an array as values of a JSON body.
Text(segments) == [kind |-> "text", segments |-> segments]

Arr(items) == [kind |-> "array", items |-> items]

\* `${v}` in a template literal.
TemplateString(v) ==
    CASE v.kind = "string" -> v.value
      [] v.kind = "undefined" -> "undefined"
      [] v.kind = "null" -> "null"
      [] OTHER -> "[object Object]"

\* A request body that request.json() parses to an object with these fields
\* (Undefined: the field is missing).
JsonBody(question, concept_type, difficulty_level, student_id) ==
    [kind |-> "json", question |-> question, concept_type |-> concept_type,
     difficulty_level |-> difficulty_level, student_id |-> student_id]

\* A request body that request.json() cannot parse.
MalformedBody == [kind |-> "malformed"]

\* POST /api/ask had it answered without the student id it was sent.
POST_DropsStudent(request) ==
    [status |-> 200, ok |-> TRUE,
     body |-> [error |-> Undefined,
               explanation |->
                   Text(<<"Here's an explanation of ", TemplateString(request.concept_type),
                     " at ", TemplateString(request.difficulty_level), " level">>),
               keyPoints |-> Arr(<<"Understanding the fundamentals">>),
               examples |-> Arr(<<"Example 1: Basic usage">>),
               practiceProblems |-> Arr(<<"Problem 1: Solve this basic exercise">>),
               difficulty_level |-> request.difficulty_level,
               concept_type |-> request.concept_type,
               student_id |-> Null]]

\* POST /api/ask had it answered a body it cannot read with status 400 and
\* the fields of a success response.
POST_ContentOnFailure(request) ==
    IF request.kind \in {"malformed", "null"}
    THEN [status |-> 400, ok |-> FALSE,
          body |-> [error |-> Str("Failed to process question"),
                    explanation |-> Text(<<"Here's an explanation of ", "undefined">>),
                    keyPoints |-> Arr(<<"Understanding the fundamentals">>),
                    examples |-> Arr(<<"Example 1: Basic usage">>),
                    practiceProblems |-> Arr(<<"Problem 1: Solve this basic exercise">>),
                    difficulty_level |-> Undefined, concept_type |-> Undefined,
                    student_id |-> Undefined]]
    ELSE [status |-> 200, ok |-> TRUE,
          body |-> [error |-> Undefined,
                    explanation |->
                        Text(<<"Here's an explanation of ", TemplateString(request.concept_type),
                          " at ", TemplateString(request.difficulty_level), " level">>),
                    keyPoints |-> Arr(<<"Understanding the fundamentals", "Practical application", "Common mistakes to avoid">>),
                    examples |-> Arr(<<"Example 1: Basic usage", "Example 2: Advanced usage", "Example 3: Real-world application">>),
                    practiceProblems |-> Arr(<<"Problem 1: Solve this basic exercise", "Problem 2: Intermediate challenge", "Problem 3: Advanced problem">>),
                    difficulty_level |-> request.difficulty_level,
                    concept_type |-> request.concept_type,
                    student_id |-> request.student_id]]

\* POST /api/ask of route.ts.  A field whose value is Undefined is left out by
\* NextResponse.json, and reads as Undefined on the other side.  The catch
\* answers a body request.json() cannot parse and the body `null`, which the
\* destructuring cannot read.
POST(request) ==
    IF request.kind \in {"malformed", "null"}
    THEN [status |-> 500, ok |-> FALSE,
          body |-> [error |-> Str("Failed to process question"),
                    explanation |-> Undefined, keyPoints |-> Undefined,
                    examples |-> Undefined, practiceProblems |-> Undefined,
                    difficulty_level |-> Undefined, concept_type |-> Undefined,
                    student_id |-> Undefined]]
    ELSE [status |-> 200, ok |-> TRUE,
          body |-> [error |-> Undefined,
                    explanation |->
                        Text(<<"Here's an explanation of ", TemplateString(request.concept_type),
                          " at ", TemplateString(request.difficulty_level),
                          " level:\n\nThis is a comprehensive explanation of the concept you asked about. The key points are:\n\n1. First key concept\n2. Second key concept\n3. Third key concept">>),
                    keyPoints |-> Arr(<<"Understanding the fundamentals", "Practical application", "Common mistakes to avoid">>),
                    examples |-> Arr(<<"Example 1: Basic usage", "Example 2: Advanced usage", "Example 3: Real-world application">>),
                    practiceProblems |-> Arr(<<"Problem 1: Solve this basic exercise", "Problem 2: Intermediate challenge", "Problem 3: Advanced problem">>),
                    difficulty_level |-> request.difficulty_level,
                    concept_type |-> request.concept_type,
                    student_id |-> request.student_id]]


(***************************************************************************)
(* The catalog of EduAgentClient.generateMockResponse: concept -> record.  *)
(***************************************************************************)
ClientRec_mathematics ==
    [kind |-> "record",
     explanation |-> <<"Mathematics is the study of numbers, quantities, and shapes. Your question touches on fundamental concepts that are essential for understanding more advanced topics.">>,
     keyPoints |-> <<"Focus on understanding the core concept", "Practice with multiple examples", "Connect to real-world applications">>,
     examples |-> <<"Example 1: Basic application", "Example 2: Intermediate use case", "Example 3: Advanced application">>,
     practiceProblems |-> <<"Practice Problem 1: Apply the concept to a new scenario", "Practice Problem 2: Solve a variation", "Practice Problem 3: Combine with related concepts">>]

ClientRec_programming ==
    [kind |-> "record",
     explanation |-> <<"Programming is the art of writing instructions for computers. Your question relates to important programming concepts that will help you write better code.">>,
     keyPoints |-> <<"Understand the syntax and semantics", "Practice writing code regularly", "Study existing code examples">>,
     examples |-> <<"Example 1: Simple implementation", "Example 2: Real-world use case", "Example 3: Advanced pattern">>,
     practiceProblems |-> <<"Practice Problem 1: Write a simple program", "Practice Problem 2: Refactor existing code", "Practice Problem 3: Build a project">>]

ClientRec_algorithm ==
    [kind |-> "record",
     explanation |-> <<"Algorithms are step-by-step procedures for solving problems. Understanding algorithms is crucial for writing efficient code.">>,
     keyPoints |-> <<"Understand the algorithm's logic", "Analyze time and space complexity", "Practice implementing variations">>,
     examples |-> <<"Example 1: Linear search", "Example 2: Binary search", "Example 3: Sorting algorithms">>,
     practiceProblems |-> <<"Practice Problem 1: Implement the algorithm", "Practice Problem 2: Optimize for performance", "Practice Problem 3: Apply to new problems">>]

ClientRec_data_structure ==
    [kind |-> "record",
     explanation |-> <<"Data structures are ways to organize and store data efficiently. Choosing the right data structure is key to writing performant code.">>,
     keyPoints |-> <<"Understand the structure's properties", "Know when to use each structure", "Practice implementing them">>,
     examples |-> <<"Example 1: Array operations", "Example 2: Linked list traversal", "Example 3: Tree operations">>,
     practiceProblems |-> <<"Practice Problem 1: Implement the structure", "Practice Problem 2: Solve problems using it", "Practice Problem 3: Compare with alternatives">>]

\* The `responses` object literal of EduAgentClient.generateMockResponse.
Client_responses ==
    Literal("mathematics" :> ClientRec_mathematics
            @@ "programming" :> ClientRec_programming
            @@ "algorithm" :> ClientRec_algorithm
            @@ "data_structure" :> ClientRec_data_structure)

\* EduAgentClient.generateMockResponse: responses[conceptType] || responses.mathematics
Client_generateMockResponse(question, conceptType, difficultyLevel) ==
    LET found == PropertyGet(Client_responses, conceptType)
    IN  IF Truthy(found) THEN found ELSE PropertyGet(Client_responses, "mathematics")

(***************************************************************************)
(* The question history.                                                   *)
(***************************************************************************)
\* question.substring(0, 50): the cut position.
TruncLen == 50

\* history.slice(0, 9): how many earlier entries Home keeps beside the new one.
HistoryKeep == 9

Min(a, b) == IF a < b THEN a ELSE b

\* s.substring(0, end) and list.slice(0, end).
Substring(s, end) == SubSeq(s, 1, Min(end, Len(s)))

Slice(list, end) == SubSeq(list, 1, Min(end, Len(list)))

Ellipsis == <<".", ".", ".">>

\* Summary had it added the "..." to every question longer than 47
\* characters while still cutting at 50.
Summary_EarlyEllipsis(question) ==
    Substring(question, TruncLen)
        \o (IF Len(question) > TruncLen - Len(Ellipsis) THEN Ellipsis ELSE <<>>)

\* Summary had it compared with >= : a question of exactly 50 characters
\* would gain the "...".
Summary_CutsAtFifty(question) ==
    Substring(question, TruncLen) \o (IF Len(question) >= TruncLen THEN Ellipsis ELSE <<>>)

\* question.substring(0, 50) + (question.length > 50 ? "..." : "")
Summary(question) ==
    Substring(question, TruncLen) \o (IF Len(question) > TruncLen THEN Ellipsis ELSE <<>>)

\* addToHistory had it kept all of the earlier entries.
addToHistory_Twice(history, question) ==
    <<Summary(question), Summary(question)>> \o Slice(history, HistoryKeep)

addToHistory_KeepsAll(history, question) ==
    <<Summary(question)>> \o history

\* addToHistory had it put the new entry last.
addToHistory_Appends(history, question) ==
    Slice(history, HistoryKeep) \o <<Summary(question)>>

\* newHistory of Home.addToHistory.
addToHistory(history, question) ==
    <<Summary(question)>> \o Slice(history, HistoryKeep)

\* questionHistory after the unshift of EduAgentClient.addToHistory.
Client_addToHistory(questionHistory, question, time) ==
    <<[question |-> Summary(question), timestamp |-> time]>> \o questionHistory

\* localStorage's "eduagent_history" item: absent, or the text JSON.stringify
\* made of a list.  JSON.parse gives the list back.
NoItem == [kind |-> "null"]

\* JSON.stringify had it left the last entry of the list out.
JSONStringify_DropsLast(list) ==
    [kind |-> "string", json |-> SubSeq(list, 1, Len(list) - 1)]

JSONStringify(list) == [kind |-> "string", json |-> list]

JSONParse(text) == text.json

\* loadHistory: the history after `if (saved) { ...JSON.parse(saved) }`.
loadHistory(history, saved) ==
    IF saved.kind = "string" THEN JSONParse(saved) ELSE history

\* String.prototype.trim on a sequence of characters.
RECURSIVE TrimStart(_)
TrimStart(s) == IF s # <<>> /\ Head(s) = " " THEN TrimStart(Tail(s)) ELSE s

RECURSIVE TrimEnd(_)
TrimEnd(s) == IF s # <<>> /\ s[Len(s)] = " " THEN TrimEnd(SubSeq(s, 1, Len(s) - 1)) ELSE s

\* trim had it returned the string as it is.
Trim_None(s) == s

Trim(s) == TrimEnd(TrimStart(s))

\* The form as useState creates it in Home.
Home_initialFormData ==
    [question |-> <<>>, conceptType |-> "algebra",
     difficultyLevel |-> "intermediate", studentId |-> ""]

\* The questionForm of EduAgentClient as form.reset() leaves it.
Client_initialForm ==
    [question |-> <<>>, conceptType |-> "mathematics",
     difficultyLevel |-> "beginner", studentId |-> ""]

\* No request in flight; no response shown.
NoRequest == [kind |-> "none"]

NoResponse == Null

\* How a fetch of /api/ask can end: a response with an ok status, a response
\* with another status, or a rejection.
FetchOutcomes == {"ok", "notOk", "throws"}

\* Home.handleSubmit of page.tsx as a function of the form and the history it
\* is called with, the store accepting the write: the response it sets, the
\* history it sets and saves, and whether an exception leaves it (its try
\* block has a catch, so none does).
Home_handleSubmitResult(form, history) ==
    [response |-> generateMockResponse(form.question, form.conceptType,
                                       form.difficultyLevel),
     history |-> addToHistory(history, form.question),
     raised |-> FALSE]

\* Home's render of the response panel: {response ? ... response.keyPoints.map
\* ... response.examples.map ...}.  It throws a TypeError when the response is
\* truthy and has no keyPoints or no examples to call map on.
Home_renderThrows(response) ==
    Truthy(response) /\ ~(HasField(response, "keyPoints") /\ HasField(response, "examples"))

\* The messages EduAgentClient shows with alert().
AlertEmpty == <<"Please enter a question">>

AlertError(error) == <<"Error: ", error>>

AlertFailed == <<"Error submitting question. Please try again.">>

\* The error a response of /api/ask that is not ok carries.
ServerError == "Failed to process question"

\* The body handleSubmit sends: JSON.stringify({question, concept_type,
\* difficulty_level, student_id: studentId || null}).
AskBody(form) ==
    JsonBody(Str(form.question), Str(form.conceptType), Str(form.difficultyLevel),
             IF form.studentId = "" THEN Null ELSE Str(form.studentId))

(***************************************************************************)
(* State.                                                                  *)
(***************************************************************************)
VARIABLES
    fnConcept,      \* the conceptType argument under test
    fnDifficulty,   \* the difficulty argument under test
    fnQuestion,     \* the question argument under test
    fnOut,          \* what the function applied last returned
    app,            \* per front-end instance: which front end it runs
    mounted,        \* per instance: loadHistory has run
    formData,       \* per instance: the form (Home's formData, the client's fields)
    loading,        \* per instance: Home's loading, the client's submitBtn.disabled
    response,       \* per instance: the response shown
    history,        \* per instance: Home's history, the client's questionHistory
    pending,        \* per instance: the /api/ask request in flight
    store,          \* localStorage's "eduagent_history" item, shared by the instances
    clock,          \* what new Date() reads
    recorded,       \* per instance: the questions handed to addToHistory, in order
    loaded,         \* per instance: the list loadHistory read
    nAsks,          \* submissions started so far
    nFailed,        \* fetches that ended without an ok response so far
    askLimit,       \* submissions the run is cut at
    storeWritable,  \* localStorage.setItem returns; when FALSE it throws
    alerts          \* per instance: the messages alert() has shown, in order

fnVars == <<fnConcept, fnDifficulty, fnQuestion, fnOut>>

uiVars ==
    <<app, mounted, formData, loading, response, history, pending, store, clock,
      recorded, loaded, nAsks, nFailed, askLimit, storeWritable, alerts>>

vars == <<fnVars, uiVars>>

\* The front-end instances running.
Clients == DOMAIN app

(***************************************************************************)
(* SpecFn: the functions, applied to arguments drawn from bounded sets.    *)
(***************************************************************************)
\* The longest question drawn as an argument.
MaxQuestionLen == 56

Rep(c, n) == [i \in 1..n |-> c]

\* Questions of every length up to the bound, with and without a trailing
\* "...".
QuestionInputs ==
    {Rep("a", n) : n \in 0..MaxQuestionLen}
        \cup {Rep("a", n - 3) \o Ellipsis : n \in 3..MaxQuestionLen}

NotCalled == [fn |-> "none"]

NoClients == <<>>

\* The front ends are not running.
UiIdle ==
    /\ app = NoClients
    /\ mounted = <<>>
    /\ formData = <<>>
    /\ loading = <<>>
    /\ response = <<>>
    /\ history = <<>>
    /\ pending = <<>>
    /\ store = NoItem
    /\ clock = 0
    /\ recorded = <<>>
    /\ loaded = <<>>
    /\ nAsks = 0
    /\ nFailed = 0
    /\ askLimit = 0
    /\ storeWritable = TRUE
    /\ alerts = <<>>

InitFn ==
    /\ fnConcept \in ConceptInputs
    /\ fnDifficulty \in DifficultyInputs
    /\ fnQuestion \in QuestionInputs
    /\ fnOut = NotCalled
    /\ UiIdle

\* Apply Home.generateMockResponse to the arguments.
CallGenerateMockResponse ==
    /\ fnOut = NotCalled
    /\ fnOut' = [fn |-> "generateMockResponse",
                 result |-> generateMockResponse(fnQuestion, fnConcept, fnDifficulty)]
    /\ UNCHANGED <<fnConcept, fnDifficulty, fnQuestion, uiVars>>

\* Send the arguments to POST /api/ask as a well-formed body.
CallPOST ==
    /\ fnOut = NotCalled
    /\ \E student_id \in {Null, Str("s1")} :
          LET request == JsonBody(Str(fnQuestion), Str(fnConcept), Str(fnDifficulty),
                                  student_id)
          IN  fnOut' = [fn |-> "POST", request |-> request, result |-> POST(request)]
    /\ UNCHANGED <<fnConcept, fnDifficulty, fnQuestion, uiVars>>

\* The fields of the body POST /api/ask reads its answer from.
RequiredFields == {"question", "concept_type", "difficulty_level"}

\* Send POST /api/ask a body that lacks some of the required fields.
CallPOSTIncomplete ==
    /\ fnOut = NotCalled
    /\ \E present \in (SUBSET RequiredFields) \ {RequiredFields} :
       \E student_id \in {Null, Str("s1")} :
          LET Sent(name, value) == IF name \in present THEN value ELSE Undefined
              request == JsonBody(Sent("question", Str(fnQuestion)),
                                  Sent("concept_type", Str(fnConcept)),
                                  Sent("difficulty_level", Str(fnDifficulty)),
                                  student_id)
          IN  fnOut' = [fn |-> "POST incomplete", request |-> request,
                        result |-> POST(request)]
    /\ UNCHANGED <<fnConcept, fnDifficulty, fnQuestion, uiVars>>

\* Send POST /api/ask a body it cannot read: text that is not JSON, or `null`.
CallPOSTUnreadable ==
    /\ fnOut = NotCalled
    /\ \E request \in {MalformedBody, Null} :
          fnOut' = [fn |-> "POST unreadable", request |-> request,
                    result |-> POST(request)]
    /\ UNCHANGED <<fnConcept, fnDifficulty, fnQuestion, uiVars>>

\* Record the question in an empty history of Home.
CallAddToHistory ==
    /\ fnOut = NotCalled
    /\ fnOut' = [fn |-> "addToHistory", result |-> addToHistory(<<>>, fnQuestion)]
    /\ UNCHANGED <<fnConcept, fnDifficulty, fnQuestion, uiVars>>

\* Record the question in an empty questionHistory of EduAgentClient.
CallClientAddToHistory ==
    /\ fnOut = NotCalled
    /\ fnOut' = [fn |-> "Client_addToHistory",
                 result |-> Client_addToHistory(<<>>, fnQuestion, 0)]
    /\ UNCHANGED <<fnConcept, fnDifficulty, fnQuestion, uiVars>>

\* Apply EduAgentClient.generateMockResponse to the arguments.
CallClientGenerateMockResponse ==
    /\ fnOut = NotCalled
    /\ fnOut' = [fn |-> "Client_generateMockResponse",
                 result |-> Client_generateMockResponse(fnQuestion, fnConcept,
                                                        fnDifficulty)]
    /\ UNCHANGED <<fnConcept, fnDifficulty, fnQuestion, uiVars>>

\* Call Home.handleSubmit of page.tsx with the arguments in the form, on an
\* empty history, and render what it set.
CallHandleSubmit ==
    /\ fnOut = NotCalled
    /\ LET form == [Home_initialFormData EXCEPT !.question = fnQuestion,
                                                !.conceptType = fnConcept,
                                                !.difficultyLevel = fnDifficulty]
           result == Home_handleSubmitResult(form, <<>>)
       IN  fnOut' = [fn |-> "handleSubmit", result |-> result,
                     renderThrows |-> Home_renderThrows(result.response)]
    /\ UNCHANGED <<fnConcept, fnDifficulty, fnQuestion, uiVars>>

NextFn ==
    \/ CallGenerateMockResponse
    \/ CallHandleSubmit
    \/ CallClientGenerateMockResponse
    \/ CallPOST
    \/ CallPOSTIncomplete
    \/ CallPOSTUnreadable
    \/ CallAddToHistory
    \/ CallClientAddToHistory

SpecFn == InitFn /\ [][NextFn]_vars

(***************************************************************************)
(* The front ends: Home of page.tsx (it answers from its own catalog),     *)
(* Home of app.js (it fetches /api/ask) and EduAgentClient of app.js.      *)
(***************************************************************************)
\* The submissions a run of SpecHist is cut at: enough to fill Home's history
\* and push an entry out; fewer for EduAgentClient, whose list only grows.
MaxAsks == 11

MaxClientAsks == 4

\* The lengths of the questions typed: a short one and one that is cut.
ShortLen == 5

LongLen == 51

\* The latest reading of the clock.
MaxClock == 1

\* The fetches a run lets end without an ok response.
MaxFailures == 1

Letters ==
    <<"a", "b", "c", "d", "e", "f", "g", "h", "i", "j", "k", "l", "m", "n", "o", "p">>

\* The length of the question typed for the k-th submission: short, cut, and
\* exactly as long as the cut position, in turn.
LenOf(k) ==
    IF k % 3 = 1 THEN ShortLen ELSE IF k % 3 = 2 THEN LongLen ELSE TruncLen

\* The question typed for the k-th submission: its first character tells it
\* from the questions of the other submissions.
FreshQuestion(k) == [i \in 1..LenOf(k) |-> IF i = 1 THEN Letters[k] ELSE "x"]

\* The user types a question into the question field.
TypeQuestion(t) ==
    /\ nAsks < askLimit
    /\ pending[t] = NoRequest
    /\ formData[t].question # FreshQuestion(nAsks + 1)
    /\ formData' = [formData EXCEPT ![t].question = FreshQuestion(nAsks + 1)]
    /\ UNCHANGED <<fnVars, app, mounted, loading, response, history, pending, store,
                   clock, recorded, loaded, nAsks, nFailed, askLimit, storeWritable, alerts>>

\* Home's useEffect on mount: loadHistory.
Home_loadHistory(t) ==
    /\ app[t] \in {"Home", "HomeFetch"}
    /\ ~mounted[t]
    /\ mounted' = [mounted EXCEPT ![t] = TRUE]
    /\ history' = [history EXCEPT ![t] = loadHistory(history[t], store)]
    /\ loaded' = [loaded EXCEPT ![t] = loadHistory(<<>>, store)]
    /\ UNCHANGED <<fnVars, app, formData, loading, response, pending, store, clock,
                   recorded, nAsks, nFailed, askLimit, storeWritable, alerts>>

\* Home.handleSubmit of page.tsx, the whole handler: it has no await.  The
\* question field is `required` and the button is disabled while loading.
Home_handleSubmit(t) ==
    /\ app[t] = "Home"
    /\ mounted[t]
    /\ ~loading[t]
    /\ formData[t].question # <<>>
    /\ nAsks < askLimit
    /\ LET form == formData[t]
           mockResponse == generateMockResponse(form.question, form.conceptType,
                                                form.difficultyLevel)
           newHistory == addToHistory(history[t], form.question)
       IN  /\ history' = [history EXCEPT ![t] = newHistory]
           /\ recorded' = [recorded EXCEPT ![t] = Append(@, form.question)]
           /\ IF storeWritable
              THEN /\ response' = [response EXCEPT ![t] = mockResponse]
                   /\ store' = JSONStringify(newHistory)
                   /\ formData' = [formData EXCEPT ![t] =
                                      [form EXCEPT !.question = <<>>]]
              ELSE \* setItem throws after setHistory: catch, setResponse(null)
                   /\ response' = [response EXCEPT ![t] = NoResponse]
                   /\ UNCHANGED <<store, formData>>
    /\ loading' = [loading EXCEPT ![t] = FALSE]
    /\ nAsks' = nAsks + 1
    /\ UNCHANGED <<fnVars, app, mounted, pending, clock, loaded, nFailed, askLimit, storeWritable, alerts>>

\* Home.handleSubmit of app.js up to its await of fetch.  What follows the
\* await reads formData and history as this render had them.
HomeFetch_handleSubmit(t) ==
    /\ app[t] = "HomeFetch"
    /\ mounted[t]
    /\ ~loading[t]
    /\ formData[t].question # <<>>
    /\ nAsks < askLimit
    /\ loading' = [loading EXCEPT ![t] = TRUE]
    /\ pending' = [pending EXCEPT ![t] =
                      [kind |-> "ask", body |-> AskBody(formData[t]),
                       formData |-> formData[t], history |-> history[t]]]
    /\ nAsks' = nAsks + 1
    /\ UNCHANGED <<fnVars, app, mounted, formData, response, history, store, clock,
                   recorded, loaded, nFailed, askLimit, storeWritable, alerts>>

\* Home.handleSubmit of app.js had it recorded the question before it looked
\* at the outcome of the fetch.
HomeFetch_fetchReturns_RecordsFirst(t) ==
    /\ app[t] = "HomeFetch"
    /\ pending[t] # NoRequest
    /\ \E outcome \in FetchOutcomes :
          LET req == pending[t]
              res == POST(req.body)
              newHistory == addToHistory(req.history, req.formData.question)
          IN  /\ history' = [history EXCEPT ![t] = newHistory]
              /\ store' = JSONStringify(newHistory)
              /\ recorded' = [recorded EXCEPT ![t] = Append(@, req.formData.question)]
              /\ IF outcome = "ok" /\ res.ok
                 THEN /\ nFailed' = nFailed
                      /\ response' = [response EXCEPT ![t] = res.body]
                      /\ formData' = [formData EXCEPT ![t] =
                                         [req.formData EXCEPT !.question = <<>>]]
                 ELSE /\ nFailed < MaxFailures
                      /\ nFailed' = nFailed + 1
                      /\ response' = [response EXCEPT ![t] = NoResponse]
                      /\ UNCHANGED formData
    /\ loading' = [loading EXCEPT ![t] = FALSE]
    /\ pending' = [pending EXCEPT ![t] = NoRequest]
    /\ UNCHANGED <<fnVars, app, mounted, clock, loaded, nAsks, askLimit, storeWritable,
                   alerts>>

\* Home.handleSubmit of app.js from the fetch's outcome to its end.
HomeFetch_fetchReturns(t) ==
    /\ app[t] = "HomeFetch"
    /\ pending[t] # NoRequest
    /\ \E outcome \in FetchOutcomes :
          LET req == pending[t]
              res == POST(req.body)
              newHistory == addToHistory(req.history, req.formData.question)
          IN  IF outcome = "ok" /\ res.ok
              THEN /\ nFailed' = nFailed
                   /\ history' = [history EXCEPT ![t] = newHistory]
                   /\ recorded' = [recorded EXCEPT ![t] = Append(@, req.formData.question)]
                   /\ IF storeWritable
                      THEN /\ response' = [response EXCEPT ![t] = res.body]
                           /\ store' = JSONStringify(newHistory)
                           /\ formData' = [formData EXCEPT ![t] =
                                              [req.formData EXCEPT !.question = <<>>]]
                      ELSE \* setItem throws after setHistory: catch, setResponse(null)
                           /\ response' = [response EXCEPT ![t] = NoResponse]
                           /\ UNCHANGED <<store, formData>>
              ELSE /\ nFailed < MaxFailures
                   /\ nFailed' = nFailed + 1
                   /\ response' = [response EXCEPT ![t] = NoResponse]
                   /\ UNCHANGED <<history, store, formData, recorded>>
    /\ loading' = [loading EXCEPT ![t] = FALSE]
    /\ pending' = [pending EXCEPT ![t] = NoRequest]
    /\ UNCHANGED <<fnVars, app, mounted, clock, loaded, nAsks, askLimit, storeWritable, alerts>>

\* EduAgentClient.init after its await of checkAgentStatus: loadHistory.
Client_loadHistory(t) ==
    /\ app[t] = "EduAgentClient"
    /\ ~mounted[t]
    /\ mounted' = [mounted EXCEPT ![t] = TRUE]
    /\ history' = [history EXCEPT ![t] = loadHistory(history[t], store)]
    /\ loaded' = [loaded EXCEPT ![t] = loadHistory(<<>>, store)]
    /\ UNCHANGED <<fnVars, app, formData, loading, response, pending, store, clock,
                   recorded, nAsks, nFailed, askLimit, storeWritable, alerts>>

\* EduAgentClient.submitQuestion had it left the submit button enabled while
\* the request is in flight.
Client_handleSubmit_WhileLoading(t) ==
    /\ app[t] = "EduAgentClient"
    /\ Trim(formData[t].question) # <<>>
    /\ nAsks < askLimit
    /\ loading' = [loading EXCEPT ![t] = TRUE]
    /\ pending' = [pending EXCEPT ![t] =
                      [kind |-> "ask", body |-> AskBody(formData[t]),
                       formData |-> formData[t], history |-> <<>>]]
    /\ nAsks' = nAsks + 1
    /\ UNCHANGED <<fnVars, app, mounted, formData, response, history, store, clock,
                   recorded, loaded, nFailed, askLimit, storeWritable, alerts>>

\* EduAgentClient.handleSubmit and submitQuestion up to the await of fetch.
\* The listener is set before init awaits, so it can run before loadHistory.
Client_handleSubmit(t) ==
    /\ app[t] = "EduAgentClient"
    /\ ~loading[t]
    /\ Trim(formData[t].question) # <<>>
    /\ nAsks < askLimit
    /\ loading' = [loading EXCEPT ![t] = TRUE]
    /\ pending' = [pending EXCEPT ![t] =
                      [kind |-> "ask", body |-> AskBody(formData[t]),
                       formData |-> formData[t], history |-> <<>>]]
    /\ nAsks' = nAsks + 1
    /\ UNCHANGED <<fnVars, app, mounted, formData, response, history, store, clock,
                   recorded, loaded, nFailed, askLimit, storeWritable, alerts>>

\* EduAgentClient.submitQuestion had it re-enabled the button at the end of
\* its try block, not in a finally: a fetch that fails leaves it disabled.
Client_fetchReturns_NoFinally(t) ==
    /\ app[t] = "EduAgentClient"
    /\ pending[t] # NoRequest
    /\ \E outcome \in FetchOutcomes :
          LET req == pending[t]
              res == POST(req.body)
              asked == req.formData
              questionHistory == Client_addToHistory(history[t], asked.question, clock)
          IN  IF outcome = "ok" /\ res.ok
              THEN /\ nFailed' = nFailed
                   /\ response' = [response EXCEPT ![t] =
                                      Client_generateMockResponse(asked.question,
                                          asked.conceptType, asked.difficultyLevel)]
                   /\ history' = [history EXCEPT ![t] = questionHistory]
                   /\ recorded' = [recorded EXCEPT ![t] = Append(@, asked.question)]
                   /\ IF storeWritable
                      THEN /\ store' = JSONStringify(questionHistory)
                           /\ formData' = [formData EXCEPT ![t] = Client_initialForm]
                           /\ UNCHANGED alerts
                      ELSE \* saveHistory throws after the unshift: catch, alert
                           /\ alerts' = [alerts EXCEPT ![t] = Append(@, AlertFailed)]
                           /\ UNCHANGED <<store, formData>>
              ELSE /\ nFailed < MaxFailures
                   /\ nFailed' = nFailed + 1
                   /\ alerts' = [alerts EXCEPT ![t] =
                                    Append(@, IF outcome = "notOk"
                                              THEN AlertError(ServerError)
                                              ELSE AlertFailed)]
                   /\ UNCHANGED <<response, history, store, formData, recorded>>
    /\ loading' = [loading EXCEPT ![t] = (nFailed' # nFailed)]
    /\ pending' = [pending EXCEPT ![t] = NoRequest]
    /\ UNCHANGED <<fnVars, app, mounted, clock, loaded, nAsks, askLimit, storeWritable>>

\* EduAgentClient.submitQuestion from the fetch's outcome to its end.
Client_fetchReturns(t) ==
    /\ app[t] = "EduAgentClient"
    /\ pending[t] # NoRequest
    /\ \E outcome \in FetchOutcomes :
          LET req == pending[t]
              res == POST(req.body)
              asked == req.formData
              questionHistory == Client_addToHistory(history[t], asked.question, clock)
          IN  IF outcome = "ok" /\ res.ok
              THEN /\ nFailed' = nFailed
                   /\ response' = [response EXCEPT ![t] =
                                      Client_generateMockResponse(asked.question,
                                          asked.conceptType, asked.difficultyLevel)]
                   /\ history' = [history EXCEPT ![t] = questionHistory]
                   /\ recorded' = [recorded EXCEPT ![t] = Append(@, asked.question)]
                   /\ IF storeWritable
                      THEN /\ store' = JSONStringify(questionHistory)
                           /\ formData' = [formData EXCEPT ![t] = Client_initialForm]
                           /\ UNCHANGED alerts
                      ELSE \* saveHistory throws after the unshift: catch, alert
                           /\ alerts' = [alerts EXCEPT ![t] = Append(@, AlertFailed)]
                           /\ UNCHANGED <<store, formData>>
              ELSE /\ nFailed < MaxFailures
                   /\ nFailed' = nFailed + 1
                   /\ alerts' = [alerts EXCEPT ![t] =
                                    Append(@, IF outcome = "notOk"
                                              THEN AlertError(ServerError)
                                              ELSE AlertFailed)]
                   /\ UNCHANGED <<response, history, store, formData, recorded>>
    /\ loading' = [loading EXCEPT ![t] = FALSE]
    /\ pending' = [pending EXCEPT ![t] = NoRequest]
    /\ UNCHANGED <<fnVars, app, mounted, clock, loaded, nAsks, askLimit, storeWritable>>

\* Time passes.
Tick ==
    /\ clock < MaxClock
    /\ clock' = clock + 1
    /\ UNCHANGED <<fnVars, app, mounted, formData, loading, response, history, pending,
                   store, recorded, loaded, nAsks, nFailed, askLimit, storeWritable, alerts>>

\* The functions are not under test.
FnIdle ==
    /\ fnConcept = ""
    /\ fnDifficulty = ""
    /\ fnQuestion = <<>>
    /\ fnOut = NotCalled

AppKinds == {"Home", "HomeFetch", "EduAgentClient"}

\* The history an earlier session of the front end left in the store: n
\* entries, the newest first.
PriorHistory(kind, n) ==
    [i \in 1..n |->
        IF kind = "EduAgentClient"
        THEN [question |-> <<"o", Letters[i]>>, timestamp |-> 0]
        ELSE <<"o", Letters[i]>>]

\* What the store holds when a session starts: nothing, or what an earlier
\* session of the same front end saved.
PriorStores(kind) ==
    {NoItem} \cup {JSONStringify(PriorHistory(kind, n)) : n \in {1, HistoryKeep + 1}}

\* n instances of front ends, each as its constructor leaves it.
Started(n) ==
    /\ DOMAIN app = 1..n
    /\ mounted = [t \in 1..n |-> FALSE]
    /\ formData = [t \in 1..n |->
                      IF app[t] = "EduAgentClient" THEN Client_initialForm
                      ELSE Home_initialFormData]
    /\ loading = [t \in 1..n |-> FALSE]
    /\ response = [t \in 1..n |-> NoResponse]
    /\ history = [t \in 1..n |-> <<>>]
    /\ pending = [t \in 1..n |-> NoRequest]
    /\ clock = 0
    /\ recorded = [t \in 1..n |-> <<>>]
    /\ loaded = [t \in 1..n |-> <<>>]
    /\ alerts = [t \in 1..n |-> <<>>]
    /\ nAsks = 0
    /\ nFailed = 0

\* One instance of any of the front ends.
InitHist ==
    /\ FnIdle
    /\ app \in [1..1 -> AppKinds]
    /\ store \in PriorStores(app[1])
    /\ askLimit = IF app[1] = "EduAgentClient" THEN MaxClientAsks ELSE MaxAsks
    /\ storeWritable = TRUE
    /\ Started(1)

NextHist ==
    \/ \E t \in Clients : TypeQuestion(t)
    \/ \E t \in Clients : Home_loadHistory(t)
    \/ \E t \in Clients : Home_handleSubmit(t)
    \/ \E t \in Clients : HomeFetch_handleSubmit(t)
    \/ \E t \in Clients : HomeFetch_fetchReturns(t)
    \/ \E t \in Clients : Client_loadHistory(t)
    \/ \E t \in Clients : Client_handleSubmit(t)
    \/ \E t \in Clients : Client_fetchReturns(t)
    \/ Tick

SpecHist == InitHist /\ [][NextHist]_vars

\* The tabs open on Home in SpecTabs, and the submissions a run is cut at.
NumTabs == 2

MaxTabAsks == 3

\* Several tabs of the same Home, sharing the browser's localStorage.
InitTabs ==
    /\ FnIdle
    /\ app \in {[t \in 1..NumTabs |-> kind] : kind \in {"Home", "HomeFetch"}}
    /\ store = NoItem
    /\ askLimit = MaxTabAsks
    /\ storeWritable = TRUE
    /\ Started(NumTabs)

NextTabs ==
    \/ \E t \in Clients : TypeQuestion(t)
    \/ \E t \in Clients : Home_loadHistory(t)
    \/ \E t \in Clients : Home_handleSubmit(t)
    \/ \E t \in Clients : HomeFetch_handleSubmit(t)
    \/ \E t \in Clients : HomeFetch_fetchReturns(t)

SpecTabs == InitTabs /\ [][NextTabs]_vars

\* The submissions a run of SpecSession is cut at, and the alerts it lets
\* EduAgentClient show for a question left blank.
MaxSessionAsks == 2

MaxBlankAlerts == 1

\* A question of white space only.
BlankQuestion == <<" ", " ">>

\* The user types white space into the question field.
TypeBlank(t) ==
    /\ nAsks < askLimit
    /\ pending[t] = NoRequest
    /\ formData[t].question = <<>>
    /\ formData' = [formData EXCEPT ![t].question = BlankQuestion]
    /\ UNCHANGED <<fnVars, app, mounted, loading, response, history, pending, store,
                   clock, recorded, loaded, nAsks, nFailed, askLimit, storeWritable,
                   alerts>>

\* The concepts Home of page.tsx puts in its selector (setConcepts), which
\* are also the ones Home of app.js falls back to.
Home_concepts ==
    <<"algebra", "calculus", "geometry", "python", "javascript", "data-structures",
      "algorithms">>

\* The list GET /api/concepts returns.
GET_concepts ==
    <<"algebra", "calculus", "geometry", "statistics", "python", "javascript",
      "data-structures", "algorithms">>

\* The concepts the selector of an instance offers: Home of app.js shows what
\* GET /api/concepts returned, or its fallback list when the fetch failed.
ConceptOptions(kind) ==
    IF kind = "HomeFetch"
    THEN {GET_concepts[i] : i \in 1..Len(GET_concepts)}
             \cup {Home_concepts[i] : i \in 1..Len(Home_concepts)}
    ELSE {Home_concepts[i] : i \in 1..Len(Home_concepts)}

\* The user picks a concept in Home's selector.
SelectConcept(t) ==
    /\ app[t] \in {"Home", "HomeFetch"}
    /\ mounted[t]
    /\ nAsks < askLimit
    /\ \E c \in ConceptOptions(app[t]) :
          /\ c # formData[t].conceptType
          /\ formData' = [formData EXCEPT ![t].conceptType = c]
    /\ UNCHANGED <<fnVars, app, mounted, loading, response, history, pending, store,
                   clock, recorded, loaded, nAsks, nFailed, askLimit, storeWritable,
                   alerts>>

\* selectHistoryItem had it put the entry back with a mark that it was cut.
SelectedQuestion_Marked(kind, list, index) ==
    (IF kind = "EduAgentClient" THEN list[index].question ELSE list[index])
        \o <<".", ".", ".">>

\* The text a click on the index-th entry of the history list puts in the
\* question field: item.question in EduAgentClient, the item itself in Home.
SelectedQuestion(kind, list, index) ==
    IF kind = "EduAgentClient" THEN list[index].question ELSE list[index]

\* The entries of a history list the user clicks in a run: the newest and
\* the oldest.
ClickedIndexes(list) == {index \in 1..Len(list) : index = 1 \/ index = Len(list)}

\* The user clicks an entry of the history list: Home's onClick,
\* EduAgentClient.selectHistoryItem.
SelectHistoryItem(t) ==
    /\ nAsks < askLimit
    /\ pending[t] = NoRequest
    /\ \E index \in ClickedIndexes(history[t]) :
          /\ SelectedQuestion(app[t], history[t], index) # formData[t].question
          /\ formData' = [formData EXCEPT ![t].question =
                             SelectedQuestion(app[t], history[t], index)]
    /\ UNCHANGED <<fnVars, app, mounted, loading, response, history, pending, store,
                   clock, recorded, loaded, nAsks, nFailed, askLimit, storeWritable,
                   alerts>>

\* EduAgentClient.handleSubmit when the question trims to nothing: it alerts
\* and returns before submitQuestion.
Client_handleSubmitBlank(t) ==
    /\ app[t] = "EduAgentClient"
    /\ ~loading[t]
    /\ Trim(formData[t].question) = <<>>
    /\ Len(alerts[t]) < MaxBlankAlerts
    /\ alerts' = [alerts EXCEPT ![t] = Append(@, AlertEmpty)]
    /\ UNCHANGED <<fnVars, app, mounted, formData, loading, response, history, pending,
                   store, clock, recorded, loaded, nAsks, nFailed, askLimit,
                   storeWritable>>

\* What the store holds when a session of SpecSession starts: as in SpecHist,
\* or a list longer than Home keeps, as another writer of the key leaves it
\* (EduAgentClient saves under the same key and never shortens its list).
SessionStores(kind) ==
    PriorStores(kind) \cup {JSONStringify(PriorHistory(kind, HistoryKeep + 2))}

\* One instance of any of the front ends, over a store that may refuse writes.
InitSession ==
    /\ FnIdle
    /\ app \in [1..1 -> AppKinds]
    /\ store \in SessionStores(app[1])
    /\ askLimit = MaxSessionAsks
    /\ storeWritable \in BOOLEAN
    /\ Started(1)

NextSession ==
    \/ \E t \in Clients : TypeQuestion(t)
    \/ \E t \in Clients : TypeBlank(t)
    \/ \E t \in Clients : SelectConcept(t)
    \/ \E t \in Clients : SelectHistoryItem(t)
    \/ \E t \in Clients : Home_loadHistory(t)
    \/ \E t \in Clients : Home_handleSubmit(t)
    \/ \E t \in Clients : HomeFetch_handleSubmit(t)
    \/ \E t \in Clients : HomeFetch_fetchReturns(t)
    \/ \E t \in Clients : Client_loadHistory(t)
    \/ \E t \in Clients : Client_handleSubmit(t)
    \/ \E t \in Clients : Client_handleSubmitBlank(t)
    \/ \E t \in Clients : Client_fetchReturns(t)

SpecSession == InitSession /\ [][NextSession]_vars

\* SpecSession with the fetches settling: a request to /api/ask in flight
\* sooner or later resolves or rejects, and what follows the await then runs.
FairSession ==
    \A t \in {1} :
        /\ WF_vars(HomeFetch_fetchReturns(t))
        /\ WF_vars(Client_fetchReturns(t))

SpecLive == InitSession /\ [][NextSession]_vars /\ FairSession

(***************************************************************************)
(* The resolver's claims, under SpecFn.                                    *)
(***************************************************************************)
\* The concepts and the (concept, difficulty) pairs the catalog holds.
CatalogConcepts == DOMAIN responses.props

HasEntry(c, d) == c \in CatalogConcepts /\ d \in DOMAIN responses.props[c].props

StoredRecord(c, d) == responses.props[c].props[d]

AllStoredRecords ==
    {StoredRecord(c, d) : c \in CatalogConcepts, d \in Levels}

\* The text holds s as one of the parts it is concatenated from.
Mentions(segments, s) == \E i \in 1..Len(segments) : segments[i] = s

Generated == fnOut.fn = "generateMockResponse"

Posted == fnOut.fn = "POST"

\* A record a caller can use: the four fields present and non-null, keyPoints
\* non-empty.
UsableRecord(v) ==
    /\ \A name \in {"explanation", "keyPoints", "examples", "practiceProblems"} :
          HasField(v, name)
    /\ v.kind = "record"
    /\ Len(v.keyPoints) > 0

\* C1: for every concept string and every difficulty string,
\* generateMockResponse returns a record whose explanation, keyPoints, examples
\* and practiceProblems are present and non-null, with keyPoints non-empty.
C1_NeverAbsent == Generated => UsableRecord(fnOut.result)

\* C2: for every (concept, difficulty) pair the catalog has an entry for,
\* generateMockResponse returns exactly the record stored for that pair: not
\* the generic template, and not the record of another pair.
C2_Identity ==
    (Generated /\ HasEntry(fnConcept, fnDifficulty)) =>
        /\ fnOut.result = StoredRecord(fnConcept, fnDifficulty)
        /\ fnOut.result # GenericResponse(fnConcept, fnDifficulty)
        /\ \A c \in CatalogConcepts : \A d \in Levels :
              <<c, d>> # <<fnConcept, fnDifficulty>> => fnOut.result # StoredRecord(c, d)

C2_Witness ==
    /\ Generated
    /\ fnConcept = "python"
    /\ fnDifficulty = "advanced"
    /\ fnOut.result = Rec_python_advanced

C4_DefaultFallback ==
    /\ (Generated /\ fnConcept \notin CatalogConcepts) =>
          /\ fnOut.result.kind = "record"
          /\ Mentions(fnOut.result.explanation, fnConcept)
          /\ Mentions(fnOut.result.explanation, fnDifficulty)
    /\ (Posted /\ fnConcept \notin CatalogConcepts) =>
          /\ fnOut.result.body.explanation.kind = "text"
          /\ Mentions(fnOut.result.body.explanation.segments, fnConcept)
          /\ Mentions(fnOut.result.body.explanation.segments, fnDifficulty)

HistoryCap == HistoryKeep + 1

Range(s) == {s[i] : i \in 1..Len(s)}

\* The summaries of the questions, the latest first.
RevSummaries(questions) ==
    [i \in 1..Len(questions) |-> Summary(questions[Len(questions) + 1 - i])]

\* The text of a history entry: Home keeps the summary itself, EduAgentClient
\* an object with the summary and a timestamp.
EntryText(t, entry) == IF app[t] = "EduAgentClient" THEN entry.question ELSE entry

IsHome(t) == app[t] \in {"Home", "HomeFetch"}

\* C6: in Home, starting from a loaded history of at most 10 entries, the
\* history never has more than 10 entries: it is the summaries of the recorded
\* questions, latest first, followed by the loaded entries, cut at 10.  After
\* 11 records of distinct questions on an empty history it has exactly 10
\* entries and the first-recorded question is the one dropped.
C6_HomeHistoryCapped ==
    \A t \in Clients : (IsHome(t) /\ mounted[t]) =>
        /\ Len(history[t]) <= HistoryCap
        /\ history[t] = Slice(RevSummaries(recorded[t]) \o loaded[t], HistoryCap)
        /\ (Len(recorded[t]) = HistoryCap + 1 /\ loaded[t] = <<>>) =>
              /\ Len(history[t]) = HistoryCap
              /\ Summary(recorded[t][1]) \notin Range(history[t])
              /\ \A i \in 2..(HistoryCap + 1) : Summary(recorded[t][i]) \in Range(history[t])

C6_Witness ==
    \E t \in Clients :
        /\ app[t] = "Home"
        /\ loaded[t] = <<>>
        /\ Len(recorded[t]) = HistoryCap + 1
        /\ Cardinality(Range(recorded[t])) = HistoryCap + 1
        /\ Len(history[t]) = HistoryCap
        /\ history[t][HistoryCap] = Summary(recorded[t][2])

\* C7: in EduAgentClient, questionHistory and the list saveHistory persisted
\* never hold more than 10 entries.
C7_ClientHistoryCapped ==
    \A t \in Clients : app[t] = "EduAgentClient" =>
        /\ Len(history[t]) <= HistoryCap
        /\ store.kind = "string" => Len(JSONParse(store)) <= HistoryCap

\* C8: every record puts the summary of its question first and leaves after it
\* the entries held before, unchanged and in their order, dropping only from
\* the tail and only what exceeds the capacity.
C8_RecordPrepends ==
    [][\A t \in Clients : recorded'[t] # recorded[t] =>
          /\ history'[t] # <<>>
          /\ EntryText(t, history'[t][1]) = Summary(recorded'[t][Len(recorded'[t])])
          /\ Tail(history'[t]) = SubSeq(history[t], 1, Len(history'[t]) - 1)
          /\ Len(history'[t]) >= Min(Len(history[t]) + 1, HistoryCap)]_vars

C8_Witness ==
    \E t \in Clients :
        /\ app[t] = "Home"
        /\ Len(recorded[t]) > HistoryCap
        /\ history[t][1] = Summary(recorded[t][Len(recorded[t])])
        /\ history[t][2] = Summary(recorded[t][Len(recorded[t]) - 1])

\* The summary a call of addToHistory stored.
StoredSummary ==
    IF fnOut.fn = "Client_addToHistory" THEN fnOut.result[1].question ELSE fnOut.result[1]

\* C9: the stored summary of a question q is q unchanged when q has at most 50
\* characters, and otherwise the first 50 characters of q followed by "...",
\* 53 characters in all.
C9_Truncation ==
    fnOut.fn \in {"addToHistory", "Client_addToHistory"} =>
        /\ Len(fnQuestion) <= TruncLen => StoredSummary = fnQuestion
        /\ Len(fnQuestion) > TruncLen =>
              /\ Len(StoredSummary) = TruncLen + 3
              /\ \A i \in 1..TruncLen : StoredSummary[i] = fnQuestion[i]
              /\ \A i \in (TruncLen + 1)..(TruncLen + 3) : StoredSummary[i] = "."

C9_Witness ==
    /\ fnOut.fn = "addToHistory"
    /\ Len(fnQuestion) > TruncLen
    /\ Len(StoredSummary) = TruncLen + 3
    /\ StoredSummary[TruncLen] = "a"

\* C10: when the submissions of two clients that share the store key have all
\* completed, no entry is lost: the persisted history holds the summary of
\* every question recorded (the questions are fewer than the capacity), and
\* each client's history holds the summaries of its own.
C10_NoLostEntry ==
    (\A t \in Clients : pending[t] = NoRequest /\ mounted[t]) =>
        \A t \in Clients : \A i \in 1..Len(recorded[t]) :
            /\ Summary(recorded[t][i]) \in Range(history[t])
            /\ store.kind = "string"
            /\ Summary(recorded[t][i]) \in Range(JSONParse(store))

(***************************************************************************)
(* The claims about a session, under SpecSession, SpecHist and SpecFn.     *)
(***************************************************************************)
\* The question recorded last by the instance.
LastRecorded(t) == recorded[t][Len(recorded[t])]

\* C11: when the store refuses the write while an ask is being recorded, the
\* entry is still recorded in memory and the response of that ask is still
\* delivered: once an ask whose fetch succeeded has completed, the instance
\* shows a response and its history starts with the summary of the question.
C11_StoreFailureKeepsResponse ==
    \A t \in Clients :
        (~storeWritable /\ recorded[t] # <<>> /\ pending[t] = NoRequest /\ nFailed = 0) =>
            /\ response[t] # NoResponse
            /\ history[t] # <<>>
            /\ EntryText(t, history[t][1]) = Summary(LastRecorded(t))

\* An ask of the instance starts, fails, or completes with a response shown.
AskStarts(t) == nAsks' = nAsks + 1 /\ app[t] # "Home"

AskFails(t) == pending[t] # NoRequest /\ pending'[t] = NoRequest /\ nFailed' = nFailed + 1

AskDelivers(t) ==
    /\ response'[t] # NoResponse
    /\ IF app[t] = "Home" THEN nAsks' = nAsks + 1
       ELSE pending[t] # NoRequest /\ pending'[t] = NoRequest /\ nFailed' = nFailed

\* The question of the ask that the step completes.
AskedQuestion(t) ==
    IF app[t] = "Home" THEN formData[t].question ELSE pending[t].formData.question

\* C12: an ask that returns a response changes the history once: it puts one
\* entry, the summary of its question, before the entries held (less what
\* the capacity drops from the tail); the start of an ask and an ask that
\* fails leave the history as it was.
C12_OneMutationPerAsk ==
    [][\A t \in Clients :
          /\ AskDelivers(t) =>
                /\ recorded'[t] = Append(recorded[t], AskedQuestion(t))
                /\ history'[t] # <<>>
                /\ EntryText(t, history'[t][1]) = Summary(AskedQuestion(t))
                /\ Len(history'[t]) <= Len(history[t]) + 1
                /\ Tail(history'[t]) = SubSeq(history[t], 1, Len(history'[t]) - 1)
          /\ (AskStarts(t) \/ AskFails(t)) =>
                /\ history'[t] = history[t]
                /\ recorded'[t] = recorded[t]]_vars

C12_Witness ==
    \E t \in Clients :
        /\ app[t] = "HomeFetch"
        /\ response[t] # NoResponse
        /\ Len(recorded[t]) = 2
        /\ Len(history[t]) = 2
        /\ history[t][1] = Summary(recorded[t][2])

\* Questions other than the one under test.
OtherQuestions == {<<>>, <<"w", "h", "y", "?">>}

\* The four content fields of a body POST /api/ask returned.
Content(body) ==
    <<body.explanation, body.keyPoints, body.examples, body.practiceProblems>>

\* C13: the content returned does not depend on the question: what
\* Home.generateMockResponse, EduAgentClient.generateMockResponse and
\* POST /api/ask return for the question under test is what they return for
\* any other question with the same concept and difficulty.
C13_QuestionIndependent ==
    \A q \in OtherQuestions :
        /\ Generated => fnOut.result = generateMockResponse(q, fnConcept, fnDifficulty)
        /\ fnOut.fn = "Client_generateMockResponse" =>
              fnOut.result = Client_generateMockResponse(q, fnConcept, fnDifficulty)
        /\ Posted =>
              Content(fnOut.result.body) =
                  Content(POST([fnOut.request EXCEPT !.question = Str(q)]).body)

C13_Witness ==
    /\ Generated
    /\ HasEntry(fnConcept, fnDifficulty)
    /\ Len(fnQuestion) > TruncLen
    /\ fnOut.result = StoredRecord(fnConcept, fnDifficulty)
    /\ fnOut.result = generateMockResponse(<<>>, fnConcept, fnDifficulty)

\* C14: an ask with an empty question and no student id does not raise,
\* whatever the concept and the difficulty: Home.handleSubmit completes and
\* what it set renders, the response is a record whose explanation contains
\* the concept string, and one entry, the empty summary, is recorded;
\* POST /api/ask answers 200 with an explanation that contains the concept
\* string.
C14_EmptyQuestionAsk ==
    /\ (fnOut.fn = "handleSubmit" /\ fnQuestion = <<>>) =>
          /\ ~fnOut.result.raised
          /\ ~fnOut.renderThrows
          /\ fnOut.result.response.kind = "record"
          /\ Mentions(fnOut.result.response.explanation, fnConcept)
          /\ fnOut.result.history = <<(<<>>)>>
    /\ (Posted /\ fnQuestion = <<>> /\ fnOut.request.student_id = Null) =>
          /\ fnOut.result.status = 200
          /\ fnOut.result.body.explanation.kind = "text"
          /\ Mentions(fnOut.result.body.explanation.segments, fnConcept)

\* C15: every concept offered to the user is a key of the catalog with at
\* least one difficulty record: whatever concept the selector of Home (filled
\* by setConcepts, or from GET /api/concepts) has let the user pick, the
\* catalog holds a record for it.
C15_OfferedConceptsInCatalog ==
    \A t \in Clients : IsHome(t) =>
        /\ formData[t].conceptType \in CatalogConcepts
        /\ \E d \in Levels : HasEntry(formData[t].conceptType, d)

\* The field of a response as its receiver reads it by name: Undefined when
\* the response has no field of that name.
FieldOf(v, name) == IF name \in DOMAIN v THEN v[name] ELSE Undefined

EchoNames == {"conceptType", "difficultyLevel", "studentId"}

C17_SavedAfterRecord ==
    \A t \in Clients : (storeWritable /\ recorded[t] # <<>>) =>
        /\ store.kind = "string"
        /\ JSONParse(store) = history[t]

C17_Witness ==
    \E t \in Clients :
        /\ app[t] = "EduAgentClient"
        /\ storeWritable
        /\ Len(recorded[t]) = 2
        /\ Len(history[t]) >= 2
        /\ history[t][1].question = Summary(recorded[t][2])
        /\ JSONParse(store) = history[t]

\* C18: in EduAgentClient the persisted history is loaded before any record:
\* no question has been handed to addToHistory (and so saved over the store)
\* while loadHistory has not run.
C18_LoadedBeforeRecord ==
    \A t \in Clients :
        (app[t] = "EduAgentClient" /\ recorded[t] # <<>>) => mounted[t]

\* C19: the history of Home has at most 10 entries in every state, the one
\* right after loadHistory included, whatever list the store held when the
\* session started.
C19_LoadedHistoryCapped ==
    \A t \in Clients : IsHome(t) => Len(history[t]) <= HistoryCap

\* The question is empty or made of white space only.
IsBlank(question) == \A i \in 1..Len(question) : question[i] = " "

\* C20: EduAgentClient.handleSubmit rejects a question that is empty or white
\* space only before the service is reached: no request in flight and no
\* recorded question of the client is blank, and the step that answers a
\* blank question with the alert sends no request, displays no response, and
\* leaves the history and the store as they were.
C20_BlankRejected ==
    /\ [](\A t \in Clients : app[t] = "EduAgentClient" =>
             /\ pending[t] # NoRequest => ~IsBlank(pending[t].formData.question)
             /\ \A i \in 1..Len(recorded[t]) : ~IsBlank(recorded[t][i]))
    /\ [][\A t \in Clients :
             (/\ app[t] = "EduAgentClient"
              /\ IsBlank(formData[t].question)
              /\ alerts'[t] # alerts[t]) =>
                 /\ alerts'[t] = Append(alerts[t], AlertEmpty)
                 /\ pending'[t] = pending[t]
                 /\ response'[t] = response[t]
                 /\ history'[t] = history[t]
                 /\ store' = store
                 /\ nAsks' = nAsks]_vars

C20_Witness ==
    \E t \in Clients :
        /\ app[t] = "EduAgentClient"
        /\ formData[t].question = BlankQuestion
        /\ alerts[t] = <<AlertEmpty>>
        /\ pending[t] = NoRequest
        /\ response[t] = NoResponse
        /\ recorded[t] = <<>>

(***************************************************************************)
(* The claims about the boundary and the forms.                            *)
(***************************************************************************)
\* C21: a request that lacks question, concept_type or difficulty_level is
\* rejected before an explanation is produced: POST /api/ask does not answer
\* it with a success response.
C21_MissingFieldRejected ==
    fnOut.fn = "POST incomplete" =>
        /\ ~fnOut.result.ok
        /\ fnOut.result.status # 200
        /\ fnOut.result.body.explanation = Undefined

ContentNames == {"explanation", "keyPoints", "examples", "practiceProblems"}

\* C29: POST /api/ask reports failure as a value: a body it cannot read is
\* answered with status 500 and the body {error: "Failed to process
\* question"}, with none of the content fields; every other body is answered
\* with a success response that carries the four content fields.
C29_FailureAsValue ==
    /\ fnOut.fn = "POST unreadable" =>
          /\ fnOut.result.status = 500
          /\ ~fnOut.result.ok
          /\ fnOut.result.body.error = Str(ServerError)
          /\ \A name \in ContentNames : fnOut.result.body[name] = Undefined
    /\ fnOut.fn \in {"POST", "POST incomplete"} =>
          /\ fnOut.result.status = 200
          /\ fnOut.result.ok
          /\ fnOut.result.body.error = Undefined
          /\ fnOut.result.body.explanation.kind = "text"
          /\ \A name \in ContentNames \ {"explanation"} :
                /\ fnOut.result.body[name].kind = "array"
                /\ Len(fnOut.result.body[name].items) = 3

C29_Witness ==
    /\ fnOut.fn = "POST unreadable"
    /\ fnOut.request = MalformedBody
    /\ fnOut.result.status = 500
    /\ fnOut.result.body.error.value = "Failed to process question"

\* C22: EduAgentClient.generateMockResponse gives, for a concept that is not
\* one of its four catalog keys, the stored mathematics record, and for every
\* concept the same record whatever the difficulty.
C22_ClientFallsBackToMathematics ==
    fnOut.fn = "Client_generateMockResponse" =>
        /\ fnConcept \notin DOMAIN Client_responses.props =>
              fnOut.result = ClientRec_mathematics
        /\ \A d \in DifficultyInputs :
              Client_generateMockResponse(fnQuestion, fnConcept, d) = fnOut.result

\* C28: truncation is idempotent: the summary of a stored summary is that
\* summary again, so an entry put back into the question field and submitted
\* again is recorded as the same text, of at most 53 characters.
C28_SummaryIdempotent ==
    fnOut.fn \in {"addToHistory", "Client_addToHistory"} =>
        /\ Summary(StoredSummary) = StoredSummary
        /\ Len(StoredSummary) <= TruncLen + Len(Ellipsis)
        /\ addToHistory(<<>>, StoredSummary) = <<StoredSummary>>
        /\ Client_addToHistory(<<>>, StoredSummary, 0)[1].question = StoredSummary

C28_Witness ==
    /\ fnOut.fn = "Client_addToHistory"
    /\ Len(fnQuestion) = TruncLen + 1
    /\ Len(StoredSummary) = TruncLen + Len(Ellipsis)
    /\ Summary(StoredSummary) = StoredSummary

\* The step puts in the question field of the instance a text that is
\* neither typed nor the field cleared: an entry was selected.
SelectStep(t) ==
    /\ formData'[t].question # formData[t].question
    /\ formData'[t].question \notin {<<>>, BlankQuestion, FreshQuestion(nAsks + 1)}

\* C23: reading the history does not change it: selecting an entry of the
\* history list copies the text of that entry into the question field and
\* leaves the rest of the form, the history in memory, the stored history,
\* the response and the request in flight as they were.
C23_SelectIsRead ==
    [][\A t \in Clients : SelectStep(t) =>
          /\ \E index \in 1..Len(history[t]) :
                formData'[t] =
                    [formData[t] EXCEPT !.question = EntryText(t, history[t][index])]
          /\ history' = history
          /\ store' = store
          /\ recorded' = recorded
          /\ response' = response
          /\ pending' = pending]_vars

C23_Witness ==
    \E t \in Clients :
        /\ Len(recorded[t]) = 1
        /\ Len(history[t]) >= 2
        /\ formData[t].question = EntryText(t, history[t][Len(history[t])])
        /\ formData[t].question # EntryText(t, history[t][1])
        /\ store.kind = "string"
        /\ JSONParse(store) = history[t]

\* C24: a failed ask leaves the history untouched: when the request to
\* /api/ask ends with a status that is not ok, or the fetch throws, no entry
\* is added to the history in memory, the stored history is not written, and
\* Home sets its response to null.
C24_FailedAskKeepsHistory ==
    [][\A t \in Clients : AskFails(t) =>
          /\ history'[t] = history[t]
          /\ store' = store
          /\ recorded'[t] = recorded[t]
          /\ IsHome(t) => response'[t] = NoResponse]_vars

C24_Witness ==
    \E t \in Clients :
        /\ app[t] = "HomeFetch"
        /\ nAsks = 2
        /\ nFailed = 1
        /\ pending[t] = NoRequest
        /\ response[t] = NoResponse
        /\ Len(recorded[t]) = 1
        /\ history[t] # <<>>
        /\ history[t][1] = Summary(recorded[t][1])
        /\ storeWritable

\* C25: every submission leaves the loading state: an instance that is
\* loading is later not loading, whether the fetch succeeded, was answered
\* with a status that is not ok, or threw; and the step that clears the flag
\* is the one that ends the request, in which the question was recorded
\* (the response set) or the failure handled.
C25_LoadingEnds ==
    /\ \A t \in {1} : loading[t] ~> ~loading[t]
    /\ [][\A t \in Clients : (loading[t] /\ ~loading'[t]) =>
             /\ pending[t] # NoRequest
             /\ pending'[t] = NoRequest
             /\ \/ recorded'[t] = Append(recorded[t], pending[t].formData.question)
                \/ nFailed' = nFailed + 1]_vars

C25_Witness ==
    \E t \in Clients :
        /\ app[t] = "EduAgentClient"
        /\ ~loading[t]
        /\ nAsks = 2
        /\ nFailed = 1
        /\ Len(recorded[t]) = 1
        /\ Len(alerts[t]) = 1
        /\ response[t] # NoResponse

\* C26: at most one ask is in flight per client: an instance is loading
\* exactly while its request is in flight, and no submission starts while the
\* instance is loading or has a request in flight.
C26_OneAskInFlight ==
    /\ [](\A t \in Clients : loading[t] <=> pending[t] # NoRequest)
    /\ [][nAsks' = nAsks + 1 =>
             \A t \in Clients :
                 (pending'[t] # NoRequest \/ recorded'[t] # recorded[t]) =>
                     (~loading[t] /\ pending[t] = NoRequest)]_vars

C26_Witness ==
    \E t \in Clients :
        /\ app[t] = "EduAgentClient"
        /\ loading[t]
        /\ pending[t] # NoRequest
        /\ nAsks = 2
        /\ Len(recorded[t]) = 1

\* C27: a successful ask in Home clears only the question field: after it,
\* conceptType, difficultyLevel and studentId are as the form had them just
\* before, edits made while the request was in flight included.
C27_AskClearsOnlyQuestion ==
    [][\A t \in Clients : (IsHome(t) /\ AskDelivers(t)) =>
          formData'[t] = [formData[t] EXCEPT !.question = <<>>]]_vars

====
